---- MODULE Spec2Model ----
(***************************************************************************)
(* A model of todo.c (Karesis/TodoList): the command-line todo list.       *)
(* Every invocation of the program is a process that runs main() and one   *)
(* command; the persistent state is the directory holding list.txt and the *)
(* transient .list_buffer.txt.  Each stdio call that touches a file is one *)
(* step, so that invocations can be interleaved and so that each call can  *)
(* fail.  Files are byte sequences; a byte is a one-character string.      *)
(* stdio buffering is not modelled: a call acts on the file when made.     *)
(***************************************************************************)
EXTENDS Integers, Sequences, FiniteSets, TLC

\* char line_buffer[256] (list, finish) and finished_task_description[256]
LINE_BUF == 256

\* Number of invocations of the program in one behaviour.
MaxRuns == 4

\* Invocations that may run at the same time in SpecConc.
Procs == {1, 2}

NL == "\n"
NUL == "NUL"

LIST_TXT == "list.txt"
TEMP_FILENAME == ".list_buffer.txt"
FileNames == {LIST_TXT, TEMP_FILENAME}

\* inode numbers; 0 is "no file"
Inodes == 1..(2 + 2 * Cardinality(Procs))

MinOf(S) == CHOOSE x \in S : \A y \in S : x <= y

----------------------------------------------------------------------------
(* C library functions, on byte sequences                                  *)

\* The C string held in a buffer: the bytes before the first NUL.
CStr(b) ==
    LET z == {i \in 1..Len(b) : b[i] = NUL}
    IN  IF z = {} THEN b ELSE SubSeq(b, 1, MinOf(z) - 1)

\* fgets(line_buffer, sizeof(line_buffer), fp) on a file holding `content`
\* with the stream at offset `pos`: at most LINE_BUF - 1 bytes, stopping
\* after a newline.  <<>> stands for the NULL returned at end of file.
Fgets(content, pos) ==
    IF pos >= Len(content) THEN <<>>
    ELSE LET lim == IF pos + LINE_BUF - 1 < Len(content)
                    THEN pos + LINE_BUF - 1 ELSE Len(content)
             nls == {i \in (pos + 1)..lim : content[i] = NL}
             end == IF nls = {} THEN lim ELSE MinOf(nls)
         IN  SubSeq(content, pos + 1, end)

\* line_buffer[strcspn(line_buffer, "\n")] = 0: the buffer with its first
\* newline, if one comes before the end of the string, replaced by NUL.
Terminated(line) ==
    LET nls == {i \in 1..Len(CStr(line)) : line[i] = NL}
    IN  IF nls = {} THEN line ELSE [line EXCEPT ![MinOf(nls)] = NUL]

\* strncpy(finished_task_description, line_buffer, size - 1) and the
\* terminating NUL: at most LINE_BUF - 1 bytes of the string.
StripNewline(line) ==
    LET t == CStr(Terminated(line))
    IN  IF Len(t) > LINE_BUF - 1 THEN SubSeq(t, 1, LINE_BUF - 1) ELSE t

\* A write of `bytes` at offset `pos` of a file opened with "w": bytes past
\* the end of the file leave a hole of NULs.
RECURSIVE Zeros(_)
Zeros(n) == IF n <= 0 THEN <<>> ELSE <<NUL>> \o Zeros(n - 1)

WriteAt(content, pos, bytes) ==
    LET before == IF pos <= Len(content) THEN SubSeq(content, 1, pos)
                  ELSE content \o Zeros(pos - Len(content))
        after == IF pos + Len(bytes) < Len(content)
                 THEN SubSeq(content, pos + Len(bytes) + 1, Len(content))
                 ELSE <<>>
    IN  before \o bytes \o after

DigitVal(c) ==
    CASE c = "0" -> 0 [] c = "1" -> 1 [] c = "2" -> 2 [] c = "3" -> 3
      [] c = "4" -> 4 [] c = "5" -> 5 [] c = "6" -> 6 [] c = "7" -> 7
      [] c = "8" -> 8 [] c = "9" -> 9 [] OTHER -> -1

RECURSIVE ScanDigits(_, _, _)
ScanDigits(s, i, acc) ==
    IF i > Len(s) \/ DigitVal(s[i]) < 0 THEN <<i, acc>>
    ELSE ScanDigits(s, i + 1, 10 * acc + DigitVal(s[i]))

\* sscanf(task_number_str, "%d", &task_to_finish_num): an optional sign, then
\* digits; what follows the digits is ignored.  <<number of items matched,
\* value>>.  The inputs hold no leading white space and no number beyond int.
Sscanf_d(s) ==
    LET neg == Len(s) >= 1 /\ s[1] = "-"
        first == IF Len(s) >= 1 /\ s[1] \in {"-", "+"} THEN 2 ELSE 1
        r == ScanDigits(s, first, 0)
    IN  IF r[1] = first THEN <<0, 0>>
        ELSE <<1, IF neg THEN 0 - r[2] ELSE r[2]>>

----------------------------------------------------------------------------
(* Inputs                                                                  *)

\* A task text that exactly fills line_buffer without its newline.
LongText == [i \in 1..(LINE_BUF - 1) |-> "a"]

Texts == {<<"a">>, <<"b">>, LongText}
NumberStrs == {<<"0">>, <<"1">>, <<"2">>, <<"3">>, <<"-", "1">>, <<"x">>}

\* argv[1..]: the command word, then the positional arguments.
Argvs ==
    {<<>>, <<"help">>, <<"bogus">>, <<"list">>, <<"clear">>, <<"add">>,
     <<"finish">>, <<"list", <<"a">>>>, <<"clear", <<"a">>>>,
     <<"add", <<"a">>, <<"b">>>>}
    \cup {<<"add", t>> : t \in Texts}
    \cup {<<"finish", n>> : n \in NumberStrs}

\* The invocations that are run concurrently in SpecConc.
ArgvsConc ==
    {<<"add", <<"c">>>>, <<"finish", <<"1">>>>, <<"finish", <<"2">>>>,
     <<"finish", <<"3">>>>, <<"list">>, <<"clear">>}

----------------------------------------------------------------------------
VARIABLES
    dir,        \* the working directory: file name -> inode, 0 when absent
    data,       \* inode -> the file's bytes (<<>> for an unused inode)
    pc,         \* where each invocation stands
    argv,       \* its arguments
    fp,         \* fp of add/list/clear, original_fp of finish
    temp_fp,    \* temp_fp of finish
    task_to_finish_num,
    current_line_number,   \* also task_number of list
    task_found_and_skipped,
    finished_task_description,
    line_buffer,
    status,     \* exit status of the invocation
    out,        \* what it printed on stdout
    err,        \* what it printed on stderr
    runs,       \* history: invocations started so far
    pre,        \* history: list.txt and the temporary file when it started
    failed,     \* history: the library calls that failed in this invocation
    prev,       \* history: the invocation this process ran before this one
    added       \* history: texts added since the store was absent or empty

fsvars == <<dir, data>>
locals == <<task_to_finish_num, current_line_number, task_found_and_skipped,
            finished_task_description, line_buffer>>
ghosts == <<runs, pre, prev, added>>
vars == <<dir, data, pc, argv, fp, temp_fp, locals, status, out, err,
          failed, ghosts>>

NoFp == [ino |-> 0, pos |-> 0]
Msg(tag, n, k, s) == [m |-> tag, n |-> n, k |-> k, s |-> s]

\* The state of a file name: whether it exists and what it holds.
FileState(d, dt, name) ==
    IF d[name] = 0 THEN [exists |-> FALSE, content |-> <<>>]
    ELSE [exists |-> TRUE, content |-> dt[d[name]]]

Store == FileState(dir, data, LIST_TXT)
Temp == FileState(dir, data, TEMP_FILENAME)

Refs(d, f1, f2) ==
    ({d[n] : n \in FileNames} \cup {f1[p].ino : p \in Procs}
        \cup {f2[p].ino : p \in Procs}) \ {0}

\* An inode lives while a name or an open stream refers to it.
Collect(dt, d, f1, f2) ==
    [i \in Inodes |-> IF i \in Refs(d, f1, f2) THEN dt[i] ELSE <<>>]

NewInode == MinOf(Inodes \ Refs(dir, fp, temp_fp))

NoPrev ==
    [cmd |-> "", text |-> <<>>, clean |-> FALSE,
     pre |-> [exists |-> FALSE, content |-> <<>>]]

Init ==
    /\ dir = [n \in FileNames |-> 0]
    /\ data = [i \in Inodes |-> <<>>]
    /\ pc = [p \in Procs |-> "idle"]
    /\ argv = [p \in Procs |-> <<>>]
    /\ fp = [p \in Procs |-> NoFp]
    /\ temp_fp = [p \in Procs |-> NoFp]
    /\ task_to_finish_num = [p \in Procs |-> 0]
    /\ current_line_number = [p \in Procs |-> 0]
    /\ task_found_and_skipped = [p \in Procs |-> 0]
    /\ finished_task_description = [p \in Procs |-> <<>>]
    /\ line_buffer = [p \in Procs |-> <<>>]
    /\ status = [p \in Procs |-> 0]
    /\ out = [p \in Procs |-> <<>>]
    /\ err = [p \in Procs |-> <<>>]
    /\ runs = 0
    /\ pre = [p \in Procs |-> [list |-> Store, temp |-> Temp]]
    /\ failed = [p \in Procs |-> {}]
    /\ prev = [p \in Procs |-> NoPrev]
    /\ added = [ok |-> TRUE, texts |-> <<>>]

----------------------------------------------------------------------------
(* main                                                                    *)

get_command_type(command_str) ==
    CASE command_str = "add" -> "ADD"
      [] command_str = "list" -> "LIST"
      [] command_str = "help" -> "HELP"
      [] command_str = "clear" -> "CLEAR"
      [] command_str = "finish" -> "FINISH"
      [] OTHER -> "UNKNOWN"

Exit1(tag, s) ==
    [pc |-> "done", status |-> 1, out |-> <<>>, err |-> <<Msg(tag, 0, 0, s)>>,
     num |-> 0]
Goto(label, num) ==
    [pc |-> label, status |-> 0, out |-> <<>>, err |-> <<>>, num |-> num]

\* The argument check of add.
add_args(av) ==
    IF Len(av) + 1 < 3 THEN Exit1("Usage: add", <<>>)
    ELSE Goto("add_fopen", 0)

list_args(av) ==
    IF Len(av) + 1 > 2 THEN Exit1("The list command cannot be followed by any arguments.", <<>>)
    ELSE Goto("list_fopen", 0)

clear_args(av) ==
    IF Len(av) + 1 > 2 THEN Exit1("The clear command cannot be followed by any arguments.", <<>>)
    ELSE Goto("clear_fopen", 0)

InvalidTaskNumber == "Error: Invalid task number"

\* The argument checks of finish: the count, then the task number.
finish_args(av) ==
    IF Len(av) + 1 # 3 THEN Exit1("Usage: finish", <<>>)
    ELSE LET r == Sscanf_d(av[2])
         IN  IF r[1] # 1 \/ r[2] <= 0
             THEN Exit1(InvalidTaskNumber, av[2])
             ELSE Goto("finish_fopen_original", r[2])

\* main: the argument count, then the dispatch on the command word, up to the
\* first library call of the command.
main(av) ==
    LET argc == Len(av) + 1
    IN  IF argc < 2 THEN Exit1("No command provided.", <<>>)
        ELSE IF argc > 3 THEN Exit1("Too many args are given.", <<>>)
        ELSE CASE get_command_type(av[1]) = "ADD" -> add_args(av)
               [] get_command_type(av[1]) = "LIST" -> list_args(av)
               [] get_command_type(av[1]) = "HELP" ->
                    [pc |-> "done", status |-> 0,
                     out |-> <<Msg("Todo List Application", 0, 0, <<>>)>>,
                     err |-> <<>>, num |-> 0]
               [] get_command_type(av[1]) = "CLEAR" -> clear_args(av)
               [] get_command_type(av[1]) = "FINISH" -> finish_args(av)
               [] OTHER -> Exit1("Unknown command", <<>>)

IsCmd(p, word, n) == Len(argv[p]) = n /\ argv[p][1] = word

\* History: what the next invocation remembers of the one that just ended.
PrevOf(p) ==
    IF pc[p] = "done" /\ status[p] = 0
       /\ (IsCmd(p, "add", 2) \/ IsCmd(p, "clear", 1))
    THEN [cmd |-> argv[p][1],
          text |-> IF IsCmd(p, "add", 2) THEN argv[p][2] ELSE <<>>,
          clean |-> failed[p] = {},
          pre |-> pre[p].list]
    ELSE NoPrev

\* History: the texts added, by invocations in which no call failed, since
\* the store was last absent or empty.
AddedOf(p) ==
    IF ~Store.exists \/ Store.content = <<>> THEN [ok |-> TRUE, texts |-> <<>>]
    ELSE IF pc[p] = "done" /\ IsCmd(p, "add", 2) /\ status[p] = 0
            /\ failed[p] = {} /\ added.ok
         THEN [ok |-> TRUE, texts |-> Append(added.texts, argv[p][2])]
    ELSE IF pc[p] = "done" /\ Len(argv[p]) >= 1
            /\ argv[p][1] \in {"add", "clear", "finish"}
         THEN [ok |-> FALSE, texts |-> <<>>]
    ELSE added

\* A new invocation of the program with arguments av, in slot p.
Invoke(p, av) ==
    /\ pc[p] \in {"idle", "done"}
    /\ runs < MaxRuns
    /\ runs' = runs + 1
    /\ argv' = [argv EXCEPT ![p] = av]
    /\ pc' = [pc EXCEPT ![p] = main(av).pc]
    /\ status' = [status EXCEPT ![p] = main(av).status]
    /\ out' = [out EXCEPT ![p] = main(av).out]
    /\ err' = [err EXCEPT ![p] = main(av).err]
    /\ task_to_finish_num' = [task_to_finish_num EXCEPT ![p] = main(av).num]
    /\ current_line_number' = [current_line_number EXCEPT ![p] = 0]
    /\ task_found_and_skipped' = [task_found_and_skipped EXCEPT ![p] = 0]
    /\ finished_task_description' = [finished_task_description EXCEPT ![p] = <<>>]
    /\ line_buffer' = [line_buffer EXCEPT ![p] = <<>>]
    /\ pre' = [pre EXCEPT ![p] = [list |-> Store, temp |-> Temp]]
    /\ failed' = [failed EXCEPT ![p] = {}]
    /\ prev' = [prev EXCEPT ![p] = PrevOf(p)]
    /\ added' = AddedOf(p)
    /\ UNCHANGED <<dir, data, fp, temp_fp>>

----------------------------------------------------------------------------
(* add                                                                     *)

\* fopen(name, "a") and fopen(name, "w") create the file when it is absent;
\* "w" truncates it.  The directory and the files after a successful open.
OpenedDir(name) ==
    IF dir[name] = 0 THEN [dir EXCEPT ![name] = NewInode] ELSE dir
\* Variant: "w" does not truncate.
OpenedData_no_truncate(name, mode) ==
    IF dir[name] = 0 THEN [data EXCEPT ![NewInode] = <<>>] ELSE data

OpenedData(name, mode) ==
    IF dir[name] = 0 THEN [data EXCEPT ![NewInode] = <<>>]
    ELSE IF mode = "w" THEN [data EXCEPT ![dir[name]] = <<>>]
    ELSE data

\* Variant: the format lacks the newline.
add_line_no_newline(task) == task

\* What fprintf(fp, "%s\n", task) sends to the file.
add_line(task) == task \o <<NL>>

\* FILE* fp = fopen("list.txt", "a"); NULL ends the invocation with status 1.
add_fopen(p) ==
    /\ pc[p] = "add_fopen"
    /\ \E fail \in BOOLEAN : LET ok == ~fail IN
        IF ok
        THEN /\ dir' = OpenedDir(LIST_TXT)
             /\ fp' = [fp EXCEPT ![p] = [ino |-> dir'[LIST_TXT], pos |-> 0]]
             /\ data' = OpenedData(LIST_TXT, "a")
             /\ pc' = [pc EXCEPT ![p] = "add_fprintf"]
             /\ UNCHANGED <<status, err, failed>>
        ELSE /\ pc' = [pc EXCEPT ![p] = "done"]
             /\ status' = [status EXCEPT ![p] = 1]
             /\ err' = [err EXCEPT ![p] = Append(@, Msg("Error: Couldn't open list.txt for adding", 0, 0, <<>>))]
             /\ failed' = [failed EXCEPT ![p] = @ \cup {"fopen"}]
             /\ UNCHANGED <<dir, data, fp>>
    /\ UNCHANGED <<argv, temp_fp, locals, out, ghosts>>

\* fprintf(fp, "%s\n", task): the stream is in append mode, so the bytes go
\* to the end of the file.  The write can fail (a full disk), whether fprintf
\* or the flush of fclose reports it; neither result is looked at.
add_fprintf(p) ==
    /\ pc[p] = "add_fprintf"
    /\ \E fail \in BOOLEAN : LET ok == ~fail IN
        IF ok
        THEN /\ data' = [data EXCEPT ![fp[p].ino] = @ \o add_line(argv[p][2])]
             /\ UNCHANGED failed
        ELSE /\ failed' = [failed EXCEPT ![p] = @ \cup {"fprintf"}]
             /\ UNCHANGED data
    /\ pc' = [pc EXCEPT ![p] = "add_fclose"]
    /\ UNCHANGED <<dir, argv, fp, temp_fp, locals, status, out, err, ghosts>>

\* fclose(fp), its result not looked at; printf("Task added: ..."); return 0.
add_fclose(p) ==
    /\ pc[p] = "add_fclose"
    /\ \E fail \in BOOLEAN : LET ok == ~fail IN
        failed' = [failed EXCEPT ![p] = IF ok THEN @ ELSE @ \cup {"fclose"}]
    /\ fp' = [fp EXCEPT ![p] = NoFp]
    /\ data' = Collect(data, dir, fp', temp_fp)
    /\ out' = [out EXCEPT ![p] = Append(@, Msg("Task added", 0, 0, argv[p][2]))]
    /\ pc' = [pc EXCEPT ![p] = "done"]
    /\ status' = [status EXCEPT ![p] = 0]
    /\ UNCHANGED <<dir, argv, temp_fp, locals, err, ghosts>>

----------------------------------------------------------------------------
(* list                                                                    *)

ListEmpty == Msg("Todo list is empty or cannot be opened.", 0, 0, <<>>)
ListHeader == Msg("--- Your Todo List ---", 0, 0, <<>>)
ListFooter == Msg("--- End of List ---", 0, 0, <<>>)
ListEntry(n, line) == Msg("entry", n, 0, CStr(line))

\* FILE* fp = fopen("list.txt", "r"): NULL when the file is absent or cannot
\* be opened, and then the invocation ends with status 1.
list_fopen(p) ==
    /\ pc[p] = "list_fopen"
    /\ \E fail \in BOOLEAN : LET ok == ~fail IN
        IF ok /\ dir[LIST_TXT] # 0
        THEN /\ fp' = [fp EXCEPT ![p] = [ino |-> dir[LIST_TXT], pos |-> 0]]
             /\ current_line_number' = [current_line_number EXCEPT ![p] = 1]
             /\ out' = [out EXCEPT ![p] = Append(@, ListHeader)]
             /\ pc' = [pc EXCEPT ![p] = "list_fgets"]
             /\ UNCHANGED <<status, err, failed>>
        ELSE /\ pc' = [pc EXCEPT ![p] = "done"]
             /\ status' = [status EXCEPT ![p] = 1]
             /\ err' = [err EXCEPT ![p] = Append(@, ListEmpty)]
             /\ failed' = [failed EXCEPT ![p] = @ \cup {"fopen"}]
             /\ UNCHANGED <<fp, current_line_number, out>>
    /\ UNCHANGED <<fsvars, argv, temp_fp, task_to_finish_num,
                   task_found_and_skipped, finished_task_description,
                   line_buffer, ghosts>>

\* One turn of while (fgets(...) != NULL) printf("%d. %s", task_number++,
\* line_buffer); at NULL (end of file, or a read error nobody looks at) the
\* footer, fclose and return 0.
list_fgets(p) ==
    /\ pc[p] = "list_fgets"
    /\ \E fail \in BOOLEAN : LET ok == ~fail IN
        LET line == IF ok THEN Fgets(data[fp[p].ino], fp[p].pos) ELSE <<>>
        IN  IF line # <<>>
            THEN /\ line_buffer' = [line_buffer EXCEPT ![p] = line]
                 /\ fp' = [fp EXCEPT ![p].pos = @ + Len(line)]
                 /\ out' = [out EXCEPT ![p] = Append(@, ListEntry(current_line_number[p], line))]
                 /\ current_line_number' = [current_line_number EXCEPT ![p] = @ + 1]
                 /\ UNCHANGED <<pc, status, failed, data>>
            ELSE /\ failed' = [failed EXCEPT ![p] = IF ok THEN @ ELSE @ \cup {"fgets"}]
                 /\ out' = [out EXCEPT ![p] = Append(@, ListFooter)]
                 /\ fp' = [fp EXCEPT ![p] = NoFp]
                 /\ data' = Collect(data, dir, fp', temp_fp)
                 /\ pc' = [pc EXCEPT ![p] = "done"]
                 /\ status' = [status EXCEPT ![p] = 0]
                 /\ UNCHANGED <<line_buffer, current_line_number>>
    /\ UNCHANGED <<dir, argv, temp_fp, task_to_finish_num,
                   task_found_and_skipped, finished_task_description, err,
                   ghosts>>

----------------------------------------------------------------------------
(* clear                                                                   *)

\* FILE* fp = fopen("list.txt", "w"): creates the file or truncates it.
clear_fopen(p) ==
    /\ pc[p] = "clear_fopen"
    /\ \E fail \in BOOLEAN : LET ok == ~fail IN
        IF ok
        THEN /\ dir' = OpenedDir(LIST_TXT)
             /\ fp' = [fp EXCEPT ![p] = [ino |-> dir'[LIST_TXT], pos |-> 0]]
             /\ data' = OpenedData(LIST_TXT, "w")
             /\ pc' = [pc EXCEPT ![p] = "clear_fclose"]
             /\ UNCHANGED <<status, err, failed>>
        ELSE /\ pc' = [pc EXCEPT ![p] = "done"]
             /\ status' = [status EXCEPT ![p] = 1]
             /\ err' = [err EXCEPT ![p] = Append(@, Msg("Error clearing tasks", 0, 0, <<>>))]
             /\ failed' = [failed EXCEPT ![p] = @ \cup {"fopen"}]
             /\ UNCHANGED <<dir, data, fp>>
    /\ UNCHANGED <<argv, temp_fp, locals, out, ghosts>>

\* fclose(fp), its result not looked at; the success message; return 0.
clear_fclose(p) ==
    /\ pc[p] = "clear_fclose"
    /\ \E fail \in BOOLEAN : LET ok == ~fail IN
        failed' = [failed EXCEPT ![p] = IF ok THEN @ ELSE @ \cup {"fclose"}]
    /\ fp' = [fp EXCEPT ![p] = NoFp]
    /\ data' = Collect(data, dir, fp', temp_fp)
    /\ out' = [out EXCEPT ![p] = Append(@, Msg("All tasks cleared successfully.", 0, 0, <<>>))]
    /\ pc' = [pc EXCEPT ![p] = "done"]
    /\ status' = [status EXCEPT ![p] = 0]
    /\ UNCHANGED <<dir, argv, temp_fp, locals, err, ghosts>>

----------------------------------------------------------------------------
(* finish                                                                  *)

\* FILE* original_fp = fopen("list.txt", "r").
finish_fopen_original(p) ==
    /\ pc[p] = "finish_fopen_original"
    /\ \E fail \in BOOLEAN : LET ok == ~fail IN
        IF ok /\ dir[LIST_TXT] # 0
        THEN /\ fp' = [fp EXCEPT ![p] = [ino |-> dir[LIST_TXT], pos |-> 0]]
             /\ pc' = [pc EXCEPT ![p] = "finish_fopen_temp"]
             /\ UNCHANGED <<status, err, failed>>
        ELSE /\ pc' = [pc EXCEPT ![p] = "done"]
             /\ status' = [status EXCEPT ![p] = 1]
             /\ err' = [err EXCEPT ![p] = Append(@, Msg("Todo list is empty or cannot be accessed. No task to finish.", 0, 0, <<>>))]
             /\ failed' = [failed EXCEPT ![p] = @ \cup {"fopen"}]
             /\ UNCHANGED fp
    /\ UNCHANGED <<fsvars, argv, temp_fp, locals, out, ghosts>>

\* FILE* temp_fp = fopen(".list_buffer.txt", "w"), then the loop's variables.
finish_fopen_temp(p) ==
    /\ pc[p] = "finish_fopen_temp"
    /\ \E fail \in BOOLEAN : LET ok == ~fail IN
        IF ok
        THEN /\ dir' = OpenedDir(TEMP_FILENAME)
             /\ temp_fp' = [temp_fp EXCEPT ![p] = [ino |-> dir'[TEMP_FILENAME], pos |-> 0]]
             /\ data' = OpenedData(TEMP_FILENAME, "w")
             /\ current_line_number' = [current_line_number EXCEPT ![p] = 1]
             /\ task_found_and_skipped' = [task_found_and_skipped EXCEPT ![p] = 0]
             /\ finished_task_description' = [finished_task_description EXCEPT ![p] = <<>>]
             /\ pc' = [pc EXCEPT ![p] = "finish_fgets"]
             /\ UNCHANGED <<fp, status, err, failed>>
        ELSE /\ fp' = [fp EXCEPT ![p] = NoFp]
             /\ data' = Collect(data, dir, fp', temp_fp)
             /\ pc' = [pc EXCEPT ![p] = "done"]
             /\ status' = [status EXCEPT ![p] = 1]
             /\ err' = [err EXCEPT ![p] = Append(@, Msg("Error: Couldn't create temporary file for update", 0, 0, <<>>))]
             /\ failed' = [failed EXCEPT ![p] = @ \cup {"fopen_temp"}]
             /\ UNCHANGED <<dir, temp_fp, current_line_number,
                            task_found_and_skipped, finished_task_description>>
    /\ UNCHANGED <<argv, task_to_finish_num, line_buffer, out, ghosts>>

\* if (current_line_number == task_to_finish_num)
skip_line(line_number, num) == line_number = num

\* One fgets of the loop.  A line to skip is recorded and dropped; any other
\* line goes on to fputs.  NULL ends the loop: on a read error (ferror) both
\* streams are closed and the temporary file is to be removed; at end of
\* file original_fp is closed.
finish_fgets(p) ==
    /\ pc[p] = "finish_fgets"
    /\ \E fail \in BOOLEAN : LET ok == ~fail IN
        LET line == IF ok THEN Fgets(data[fp[p].ino], fp[p].pos) ELSE <<>>
        IN  IF line # <<>>
            THEN /\ line_buffer' = [line_buffer EXCEPT ![p] =
                        IF skip_line(current_line_number[p], task_to_finish_num[p])
                        THEN Terminated(line) ELSE line]
                 /\ fp' = [fp EXCEPT ![p].pos = @ + Len(line)]
                 /\ IF skip_line(current_line_number[p], task_to_finish_num[p])
                    THEN /\ task_found_and_skipped' = [task_found_and_skipped EXCEPT ![p] = 1]
                         /\ finished_task_description' = [finished_task_description EXCEPT ![p] = StripNewline(line)]
                         /\ current_line_number' = [current_line_number EXCEPT ![p] = @ + 1]
                         /\ UNCHANGED pc
                    ELSE /\ pc' = [pc EXCEPT ![p] = "finish_fputs"]
                         /\ UNCHANGED <<task_found_and_skipped,
                                        finished_task_description,
                                        current_line_number>>
                 /\ UNCHANGED <<temp_fp, data, err, failed>>
            ELSE /\ IF ok
                    THEN /\ fp' = [fp EXCEPT ![p] = NoFp]
                         /\ pc' = [pc EXCEPT ![p] = "finish_fclose_temp"]
                         /\ UNCHANGED <<temp_fp, err, failed>>
                    ELSE /\ fp' = [fp EXCEPT ![p] = NoFp]
                         /\ temp_fp' = [temp_fp EXCEPT ![p] = NoFp]
                         /\ err' = [err EXCEPT ![p] = Append(@, Msg("Error: Failed during reading from list.txt", 0, 0, <<>>))]
                         /\ failed' = [failed EXCEPT ![p] = @ \cup {"fgets"}]
                         /\ pc' = [pc EXCEPT ![p] = "finish_remove_temp"]
                 /\ data' = Collect(data, dir, fp', temp_fp')
                 /\ UNCHANGED <<line_buffer, task_found_and_skipped,
                                finished_task_description, current_line_number>>
    /\ UNCHANGED <<dir, argv, task_to_finish_num, status, out, ghosts>>

\* fputs(line_buffer, temp_fp) and current_line_number++; on EOF both streams
\* are closed and the temporary file is to be removed.
finish_fputs(p) ==
    /\ pc[p] = "finish_fputs"
    /\ \E fail \in BOOLEAN : LET ok == ~fail IN
        IF ok
        THEN /\ data' = [data EXCEPT ![temp_fp[p].ino] =
                            WriteAt(@, temp_fp[p].pos, CStr(line_buffer[p]))]
             /\ temp_fp' = [temp_fp EXCEPT ![p].pos = @ + Len(CStr(line_buffer[p]))]
             /\ current_line_number' = [current_line_number EXCEPT ![p] = @ + 1]
             /\ pc' = [pc EXCEPT ![p] = "finish_fgets"]
             /\ UNCHANGED <<fp, err, failed>>
        ELSE /\ fp' = [fp EXCEPT ![p] = NoFp]
             /\ temp_fp' = [temp_fp EXCEPT ![p] = NoFp]
             /\ data' = Collect(data, dir, fp', temp_fp')
             /\ err' = [err EXCEPT ![p] = Append(@, Msg("Error: Failed to write to temporary file", 0, 0, <<>>))]
             /\ failed' = [failed EXCEPT ![p] = @ \cup {"fputs"}]
             /\ pc' = [pc EXCEPT ![p] = "finish_remove_temp"]
             /\ UNCHANGED current_line_number
    /\ UNCHANGED <<dir, argv, task_to_finish_num, task_found_and_skipped,
                   finished_task_description, line_buffer, status, out, ghosts>>

EmptyNoTask == Msg("Todo list is empty. No task to finish.", 0, 0, <<>>)
TaskNotFound(num, last) ==
    Msg("Error: Task not found. Tasks are numbered 1 to", num, last, <<>>)

\* Variant: the range is reported whatever the line count.
not_found_report_always_range(line_number, num) ==
    [out |-> <<>>, err |-> <<TaskNotFound(num, line_number - 1)>>]

\* if (!task_found_and_skipped): what is printed, as [out, err].
not_found_report(line_number, num) ==
    IF line_number = 1 /\ num >= 1
    THEN [out |-> <<EmptyNoTask>>, err |-> <<>>]
    ELSE [out |-> <<>>, err |-> <<TaskNotFound(num, line_number - 1)>>]

\* Variant: a task that was not found ends the invocation at once, the
\* temporary file left behind.
after_fclose_temp_no_cleanup(ok, found) ==
    IF ~ok THEN "finish_remove_temp"
    ELSE IF found = 0 THEN "done"
    ELSE "finish_remove_original"

\* Variant: the result of fclose(temp_fp) is not looked at.
after_fclose_temp_ignoring_eof(ok, found) ==
    IF found = 0 THEN "finish_remove_temp" ELSE "finish_remove_original"

\* Where finish goes after fclose(temp_fp): EOF from fclose, or a task that
\* was not found, leads to the removal of the temporary file and exit(1);
\* otherwise list.txt is replaced.
after_fclose_temp(ok, found) ==
    IF ~ok THEN "finish_remove_temp"
    ELSE IF found = 0 THEN "finish_remove_temp"
    ELSE "finish_remove_original"

\* fclose(temp_fp), then the test of task_found_and_skipped.
finish_fclose_temp(p) ==
    /\ pc[p] = "finish_fclose_temp"
    /\ temp_fp' = [temp_fp EXCEPT ![p] = NoFp]
    /\ data' = Collect(data, dir, fp, temp_fp')
    /\ \E fail \in BOOLEAN : LET ok == ~fail IN
        /\ pc' = [pc EXCEPT ![p] = after_fclose_temp(ok, task_found_and_skipped[p])]
        /\ IF ~ok
           THEN /\ err' = [err EXCEPT ![p] = Append(@, Msg("Error: Failed to close temporary file (data may be lost)", 0, 0, <<>>))]
                /\ failed' = [failed EXCEPT ![p] = @ \cup {"fclose_temp"}]
                /\ UNCHANGED out
           ELSE /\ UNCHANGED failed
                /\ IF task_found_and_skipped[p] = 0
                   THEN /\ out' = [out EXCEPT ![p] = @ \o not_found_report(current_line_number[p], task_to_finish_num[p]).out]
                        /\ err' = [err EXCEPT ![p] = @ \o not_found_report(current_line_number[p], task_to_finish_num[p]).err]
                   ELSE UNCHANGED <<out, err>>
    /\ UNCHANGED <<dir, argv, fp, locals, status, ghosts>>

\* The directory after remove(name).
removed(name) == [dir EXCEPT ![name] = 0]

\* remove(temp_filename), its result not looked at, then exit(1).
finish_remove_temp(p) ==
    /\ pc[p] = "finish_remove_temp"
    /\ \E fail \in BOOLEAN : LET ok == ~fail IN
        IF ok /\ dir[TEMP_FILENAME] # 0
        THEN /\ dir' = removed(TEMP_FILENAME)
             /\ UNCHANGED failed
        ELSE /\ failed' = [failed EXCEPT ![p] = @ \cup {"remove_temp"}]
             /\ UNCHANGED dir
    /\ data' = Collect(data, dir', fp, temp_fp)
    /\ pc' = [pc EXCEPT ![p] = "done"]
    /\ status' = [status EXCEPT ![p] = 1]
    /\ UNCHANGED <<argv, fp, temp_fp, locals, out, err, ghosts>>

\* remove("list.txt"); on failure the temporary file is left for the user
\* and the invocation ends with status 1.
finish_remove_original(p) ==
    /\ pc[p] = "finish_remove_original"
    /\ \E fail \in BOOLEAN : LET ok == ~fail IN
        IF ok /\ dir[LIST_TXT] # 0
        THEN /\ dir' = removed(LIST_TXT)
             /\ pc' = [pc EXCEPT ![p] = "finish_rename"]
             /\ UNCHANGED <<status, err, failed>>
        ELSE /\ pc' = [pc EXCEPT ![p] = "done"]
             /\ status' = [status EXCEPT ![p] = 1]
             /\ err' = [err EXCEPT ![p] = @ \o
                    <<Msg("Error: Couldn't delete original list.txt", 0, 0, <<>>),
                      Msg("The updated list may be in the temporary file. Please check manually.", 0, 0, <<>>)>>]
             /\ failed' = [failed EXCEPT ![p] = @ \cup {"remove_original"}]
             /\ UNCHANGED dir
    /\ data' = Collect(data, dir', fp, temp_fp)
    /\ UNCHANGED <<argv, fp, temp_fp, locals, out, ghosts>>

Critical == Msg("CRITICAL ERROR: Original list.txt deleted", 0, 0, <<>>)
TaskFinished(num, description) == Msg("Task finished", num, 0, description)

\* Variant: the old name goes, the new name is not set.
renamed_nowhere(from, to) == [dir EXCEPT ![from] = 0]

\* The directory after a successful rename(from, to).
renamed(from, to) == [dir EXCEPT ![to] = dir[from], ![from] = 0]

\* rename(temp_filename, "list.txt"); on failure the CRITICAL report and
\* exit(1), else the report of the finished task and return 0.
finish_rename(p) ==
    /\ pc[p] = "finish_rename"
    /\ \E fail \in BOOLEAN : LET ok == ~fail IN
        IF ok /\ dir[TEMP_FILENAME] # 0
        THEN /\ dir' = renamed(TEMP_FILENAME, LIST_TXT)
             /\ status' = [status EXCEPT ![p] = 0]
             /\ out' = [out EXCEPT ![p] = Append(@, TaskFinished(task_to_finish_num[p], finished_task_description[p]))]
             /\ UNCHANGED <<err, failed>>
        ELSE /\ status' = [status EXCEPT ![p] = 1]
             /\ err' = [err EXCEPT ![p] = @ \o
                    <<Msg("Error: Couldn't rename temporary file to list.txt", 0, 0, <<>>),
                      Critical,
                      Msg("Your updated list is LIKELY in the temporary file. PLEASE RECOVER IT MANUALLY", 0, 0, <<>>)>>]
             /\ failed' = [failed EXCEPT ![p] = @ \cup {"rename"}]
             /\ UNCHANGED <<dir, out>>
    /\ data' = Collect(data, dir', fp, temp_fp)
    /\ pc' = [pc EXCEPT ![p] = "done"]
    /\ UNCHANGED <<argv, fp, temp_fp, locals, ghosts>>

----------------------------------------------------------------------------
(* Specifications                                                          *)

Step(p) ==
    \/ add_fopen(p) \/ add_fprintf(p) \/ add_fclose(p)
    \/ list_fopen(p) \/ list_fgets(p)
    \/ clear_fopen(p) \/ clear_fclose(p)
    \/ finish_fopen_original(p) \/ finish_fopen_temp(p)
    \/ finish_fgets(p) \/ finish_fputs(p) \/ finish_fclose_temp(p)
    \/ finish_remove_temp(p) \/ finish_remove_original(p)
    \/ finish_rename(p)

\* One invocation at a time: the shell runs the program to its end before
\* the next command.
Next == (\E av \in Argvs : Invoke(1, av)) \/ Step(1)

Spec == Init /\ [][Next]_vars

\* Two invocations against a store that earlier invocations filled: the
\* store as add("a") and add("b") leave it.
ConcStore == <<"a", NL, "b", NL>>

InitConc ==
    /\ dir = [n \in FileNames |-> IF n = LIST_TXT THEN 1 ELSE 0]
    /\ data = [i \in Inodes |-> IF i = 1 THEN ConcStore ELSE <<>>]
    /\ pre = [p \in Procs |->
                [list |-> [exists |-> TRUE, content |-> ConcStore],
                 temp |-> [exists |-> FALSE, content |-> <<>>]]]
    /\ pc = [p \in Procs |-> "idle"]
    /\ argv = [p \in Procs |-> <<>>]
    /\ fp = [p \in Procs |-> NoFp]
    /\ temp_fp = [p \in Procs |-> NoFp]
    /\ task_to_finish_num = [p \in Procs |-> 0]
    /\ current_line_number = [p \in Procs |-> 0]
    /\ task_found_and_skipped = [p \in Procs |-> 0]
    /\ finished_task_description = [p \in Procs |-> <<>>]
    /\ line_buffer = [p \in Procs |-> <<>>]
    /\ status = [p \in Procs |-> 0]
    /\ out = [p \in Procs |-> <<>>]
    /\ err = [p \in Procs |-> <<>>]
    /\ runs = MaxRuns - 2
    /\ failed = [p \in Procs |-> {}]
    /\ prev = [p \in Procs |-> NoPrev]
    /\ added = [ok |-> FALSE, texts |-> <<>>]

\* Invocations started while another one may be running.
NextConc == \E p \in Procs : (\E av \in ArgvsConc : Invoke(p, av)) \/ Step(p)

SpecConc == InitConc /\ [][NextConc]_vars

----------------------------------------------------------------------------
(* Vocabulary of the properties                                            *)

\* The tasks a store holds: its lines, each up to and with its newline.
RECURSIVE Lines(_)
Lines(c) ==
    IF c = <<>> THEN <<>>
    ELSE LET nls == {i \in 1..Len(c) : c[i] = NL}
             e == IF nls = {} THEN Len(c) ELSE MinOf(nls)
         IN  <<SubSeq(c, 1, e)>> \o Lines(SubSeq(c, e + 1, Len(c)))

\* The lines the program reads from a store: one per fgets.
RECURSIVE Reads(_)
Reads(c) ==
    IF c = <<>> THEN <<>>
    ELSE <<Fgets(c, 0)>> \o Reads(SubSeq(c, Len(Fgets(c, 0)) + 1, Len(c)))

RECURSIVE Flatten(_)
Flatten(ss) == IF ss = <<>> THEN <<>> ELSE Head(ss) \o Flatten(Tail(ss))

RemoveAt(ss, k) ==
    IF k \in 1..Len(ss)
    THEN SubSeq(ss, 1, k - 1) \o SubSeq(ss, k + 1, Len(ss))
    ELSE ss

\* A line without its newline.
Chomp(l) == IF l # <<>> /\ l[Len(l)] = NL THEN SubSeq(l, 1, Len(l) - 1) ELSE l

Done(p, word, n) == pc[p] = "done" /\ IsCmd(p, word, n)

----------------------------------------------------------------------------
(* Properties                                                              *)

\* C1: a successful finish(k) on a store holding n tasks, 1 <= k <= n, leaves
\* the original tasks with the k-th removed, the others in their order, and
\* reports the original k-th task as finished.
C1_FinishRemovesKthTask ==
    \A p \in Procs :
        (Done(p, "finish", 2) /\ status[p] = 0
            /\ task_to_finish_num[p] \in 1..Len(Lines(pre[p].list.content)))
        => LET T == Lines(pre[p].list.content)
               k == task_to_finish_num[p]
           IN  /\ Store.exists
               /\ Lines(Store.content) = RemoveAt(T, k)
               /\ out[p] = <<TaskFinished(k, Chomp(T[k]))>>

\* C2: after add calls with texts t1..tn on an absent or empty store, list
\* prints exactly the entries 1..n, entry i being ti, between the banners.
\* Only invocations in which no library call failed are looked at.
C2_ListShowsAddedTexts ==
    \A p \in Procs :
        (Done(p, "list", 1) /\ status[p] = 0 /\ failed[p] = {} /\ added.ok)
        => out[p] = <<ListHeader>>
                    \o [i \in 1..Len(added.texts) |->
                            ListEntry(i, added.texts[i] \o <<NL>>)]
                    \o <<ListFooter>>

ParsedNumber(p) == Sscanf_d(argv[p][2])[2]
NumberGiven(p) == Sscanf_d(argv[p][2])[1] = 1

IsFinish(p) == Len(argv[p]) >= 1 /\ argv[p][1] = "finish"

\* C4 as stated: when a finish invocation has ended, .list_buffer.txt does
\* not exist, unless list.txt was deleted and the rename failed.  Invocations
\* that found the file there when they started, or whose own removal of it
\* failed, are left out.
C4_NoTempAfterFinish ==
    \A p \in Procs :
        (pc[p] = "done" /\ IsFinish(p) /\ ~pre[p].temp.exists
            /\ "remove_temp" \notin failed[p])
        => (~Temp.exists \/ (~Store.exists /\ "rename" \in failed[p]))

\* C4 amended: when a finish invocation has ended, .list_buffer.txt exists
\* only if the deletion of list.txt failed, or the rename failed, or the
\* removal of the temporary file itself failed, or the file was there before
\* and the invocation ended without opening it.
C4_TempOnlyAfterFailedReplace ==
    \A p \in Procs :
        (pc[p] = "done" /\ IsFinish(p) /\ Temp.exists)
        => \/ "remove_original" \in failed[p]
           \/ "rename" \in failed[p]
           \/ "remove_temp" \in failed[p]
           \/ /\ pre[p].temp.exists
              /\ Temp = pre[p].temp
              /\ \/ main(argv[p]).pc = "done"
                 \/ "fopen" \in failed[p]
                 \/ "fopen_temp" \in failed[p]

\* C4 witness: finish has ended because list.txt could not be deleted; the
\* store is as it was and the temporary file holds the updated list.
C4_Witness ==
    /\ Done(1, "finish", 2) /\ failed[1] = {"remove_original"}
    /\ status[1] = 1 /\ Store = pre[1].list
    /\ Temp.exists /\ ~pre[1].temp.exists

\* C5 as stated: list after a successful clear fails with the "empty" error
\* and status 1, and prints no banner.  Only invocations in which no library
\* call failed are looked at.
C5_ListAfterClearFails ==
    \A p \in Procs :
        (Done(p, "list", 1) /\ prev[p].cmd = "clear" /\ prev[p].clean
            /\ failed[p] \subseteq {"fopen"})
        => status[p] = 1 /\ out[p] = <<>> /\ err[p] = <<ListEmpty>>

\* C5 amended: a successful clear leaves an existing, empty store, and a
\* list that follows it prints the two banners with no task line between
\* them and exits 0; it fails with the "empty" error only when list.txt
\* cannot be opened.
C5_ListAfterClearPrintsBanners ==
    \A p \in Procs :
        /\ (Done(p, "clear", 1) /\ status[p] = 0)
           => Store.exists /\ Store.content = <<>>
        /\ (Done(p, "list", 1) /\ prev[p].cmd = "clear")
           => IF "fopen" \in failed[p]
              THEN status[p] = 1 /\ out[p] = <<>> /\ err[p] = <<ListEmpty>>
              ELSE status[p] = 0 /\ out[p] = <<ListHeader, ListFooter>>
                   /\ err[p] = <<>>

\* C5 witness: list has ended with status 0 after clear emptied a store that
\* held a task.
C5_Witness ==
    /\ Done(1, "list", 1) /\ prev[1].cmd = "clear"
    /\ prev[1].pre.content # <<>>
    /\ status[1] = 0 /\ out[1] = <<ListHeader, ListFooter>>

\* C6 as stated: add(x) followed by finish(1) leaves the store in the state
\* it had before the add, and no temporary file.  An absent store and an
\* empty one are taken as the same state, and only stores whose lines each
\* fit one read are looked at.
C6_AddFinishRoundTrip ==
    \A p \in Procs :
        (Done(p, "finish", 2) /\ ParsedNumber(p) = 1 /\ status[p] = 0
            /\ prev[p].cmd = "add" /\ prev[p].clean
            /\ Reads(pre[p].list.content) = Lines(pre[p].list.content))
        => Store.content = prev[p].pre.content /\ ~Temp.exists

\* C6 amended: add(x) followed by a successful finish(1) leaves an existing
\* store that holds what add left in it without the first line read, and no
\* temporary file; when add's calls all went through, add left the content
\* of S followed by x.  So from an absent or empty S the store ends empty
\* exactly when x is read as one line, and from an S that holds tasks it is
\* the first line of S that goes, and x stays.
C6_AddFinishDropsFirstLine ==
    \A p \in Procs :
        (Done(p, "finish", 2) /\ ParsedNumber(p) = 1 /\ status[p] = 0
            /\ prev[p].cmd = "add")
        => /\ Store.exists /\ ~Temp.exists
           /\ Store.content = Flatten(Tail(Reads(pre[p].list.content)))
           /\ prev[p].clean
              => /\ pre[p].list.content
                      = prev[p].pre.content \o prev[p].text \o <<NL>>
                 /\ prev[p].pre.content = <<>>
                    => (Store.content = <<>>
                        <=> Len(Reads(prev[p].text \o <<NL>>)) = 1)
                 /\ prev[p].pre.content # <<>>
                    => Store.content
                         = Flatten(Tail(Reads(prev[p].pre.content)))
                            \o prev[p].text \o <<NL>>

\* C6 witness: after add on a store that held tasks, finish(1) has taken the
\* first of them away and the added text is still there.
C6_Witness ==
    /\ Done(1, "finish", 2) /\ ParsedNumber(1) = 1 /\ status[1] = 0
    /\ prev[1].cmd = "add" /\ prev[1].clean
    /\ prev[1].pre.content # <<>>
    /\ Store.content # prev[1].pre.content

FinishBeforeReplace ==
    {"finish_fopen_original", "finish_fopen_temp", "finish_fgets",
     "finish_fputs", "finish_fclose_temp", "finish_remove_temp"}
TempFailures == {"fopen_temp", "fputs", "fclose_temp", "fgets"}

\* C7: in finish, list.txt is as it was until the temporary file has been
\* written and closed without error and the task was found; a failure to
\* open, write or close the temporary file, or to read the store, ends the
\* invocation with status 1 and list.txt as it was.
C7_StoreUntouchedUntilTempClosed ==
    \A p \in Procs :
        IsFinish(p) =>
          /\ pc[p] \in FinishBeforeReplace => Store = pre[p].list
          /\ pc[p] \in {"finish_remove_original", "finish_rename"}
             => /\ task_found_and_skipped[p] = 1
                /\ failed[p] = {}
                /\ fp[p] = NoFp /\ temp_fp[p] = NoFp
                /\ Temp.exists
                /\ Temp.content = Flatten(RemoveAt(Reads(pre[p].list.content),
                                                   task_to_finish_num[p]))
          /\ (pc[p] = "done" /\ failed[p] \cap TempFailures # {})
             => status[p] = 1 /\ Store = pre[p].list

\* C7 witness: fclose(temp_fp) failed after the task was found, and the
\* invocation has ended with status 1 and the store as it was.
C7_Witness ==
    /\ Done(1, "finish", 2) /\ "fclose_temp" \in failed[1]
    /\ task_found_and_skipped[1] = 1
    /\ status[1] = 1 /\ Store = pre[1].list /\ Store.content # <<>>

Range(f) == {f[i] : i \in DOMAIN f}

\* C8: when list.txt was deleted and the rename failed, finish ends with
\* list.txt absent, .list_buffer.txt holding the original tasks without the
\* finished one, the CRITICAL report, and status 1; and no other outcome of
\* any command leaves a store absent that was there before.
C8_CriticalState ==
    \A p \in Procs :
        pc[p] = "done" =>
          /\ (IsFinish(p) /\ "rename" \in failed[p])
             => /\ ~Store.exists /\ Temp.exists
                /\ Lines(Temp.content)
                     = RemoveAt(Lines(pre[p].list.content), task_to_finish_num[p])
                /\ Critical \in Range(err[p])
                /\ status[p] = 1
          /\ (pre[p].list.exists /\ ~Store.exists)
             => IsFinish(p) /\ "rename" \in failed[p]

\* C9: an invocation in which a library call on the store or the temporary
\* file failed ends with status 1; status 0 from add(x) means x was appended
\* and status 0 from clear means the store is empty.  A failed fclose of
\* add's, list's or clear's stream, which loses nothing here, is left out.
C9_ExitStatus ==
    \A p \in Procs :
        pc[p] = "done" =>
          /\ failed[p] \ {"fclose"} # {} => status[p] = 1
          /\ (IsCmd(p, "add", 2) /\ status[p] = 0)
             => Store.content = pre[p].list.content \o argv[p][2] \o <<NL>>
          /\ (IsCmd(p, "clear", 1) /\ status[p] = 0)
             => Store.exists /\ Store.content = <<>>

DropRead(c, k) == Flatten(RemoveAt(Reads(c), k))

\* The two invocations have ended, finish(k) in slot p and add(x) in slot q,
\* both with status 0 and without a failed call.
BothSucceeded(p, q) ==
    /\ Done(p, "finish", 2) /\ status[p] = 0 /\ failed[p] = {}
    /\ Done(q, "add", 2) /\ status[q] = 0 /\ failed[q] = {}

\* C10: when finish(k) and add(x) run against the same store and both exit
\* 0, the store ends as one of the two serial orders leave it or, nothing
\* keeping the two apart, as finish(k) alone leaves it: x is lost.
C10_UnprotectedInterleaving ==
    \A p, q \in Procs :
        (p # q /\ BothSucceeded(p, q))
        => /\ Store.exists
           /\ Store.content \in
                {DropRead(ConcStore, task_to_finish_num[p]) \o add_line(argv[q][2]),
                 DropRead(ConcStore \o add_line(argv[q][2]), task_to_finish_num[p]),
                 DropRead(ConcStore, task_to_finish_num[p])}

\* C10 witness: both have exited 0 and the store is what neither serial
\* order leaves: the added text is not in it.
C10_Witness ==
    /\ BothSucceeded(1, 2)
    /\ Store.content = DropRead(ConcStore, task_to_finish_num[1])
    /\ Store.content # DropRead(ConcStore, task_to_finish_num[1]) \o add_line(argv[2][2])
    /\ Store.content # DropRead(ConcStore \o add_line(argv[2][2]), task_to_finish_num[1])
====
